---- MODULE Spec2Model ----
(***************************************************************************)
(* Model of ds_final_project.py: the two cached openFDA loaders            *)
(* (load_events, load_search_events) and the three pages built on them     *)
(* (page_top_drugs, page_search_drug, page_role_distribution).             *)
(*                                                                         *)
(* Strings are sequences of one-character strings so that strip(), lower() *)
(* and strptime can be computed.  A JSON value that may be absent or null  *)
(* is a record [k, s, n]: k is the kind, s the characters of a string,     *)
(* n the value of an integer.                                              *)
(***************************************************************************)
EXTENDS Integers, Sequences, FiniteSets, TLC

VARIABLES
    feed,     \* the result list the remote feed holds
    cache,    \* st.cache_data: key -> stored frame
    call,     \* the loader call of the last page render
    page,     \* the page rendered last
    view,     \* what it showed
    first,    \* history: key -> the first frame a loader returned for it
    edited    \* history: the keys whose frame page_search_drug has rewritten

vars == <<feed, cache, call, page, view, first, edited>>

(***************************************************************************)
(* JSON values                                                             *)
(***************************************************************************)
JStr(s) == [k |-> "str", s |-> s, n |-> 0]
JInt(n) == [k |-> "int", s |-> <<>>, n |-> n]
JNull == [k |-> "null", s |-> <<>>, n |-> 0]
JAbsent == [k |-> "absent", s |-> <<>>, n |-> 0]
\* a parsed date (pandas Timestamp / datetime.date) and the null date NaT
JDate(v) == [k |-> "date", s |-> <<>>, n |-> v]
NaT == [k |-> "nat", s |-> <<>>, n |-> 0]

\* dict.get(key): an absent key and a JSON null both give None
DictGet(j) == IF j.k = "absent" THEN JNull ELSE j

\* dict.get(key, ""): only an absent key gives the default
DictGetDefault(j) == IF j.k = "absent" THEN JStr(<<>>) ELSE j

(***************************************************************************)
(* str.strip() and str.lower()                                             *)
(***************************************************************************)
\* the sequence f with its elements computed once (a function written
\* [i \in 1..n |-> e] is otherwise recomputed at every f[i])
Tuple(f) == f \o <<>>

IsSpace(c) == c = " "

RECURSIVE LStrip(_)
LStrip(s) ==
    IF s = <<>> THEN <<>>
    ELSE IF IsSpace(Head(s)) THEN LStrip(Tail(s)) ELSE s

RECURSIVE RStrip(_)
RStrip(s) ==
    IF s = <<>> THEN <<>>
    ELSE IF IsSpace(s[Len(s)]) THEN RStrip(SubSeq(s, 1, Len(s) - 1)) ELSE s

Strip(s) == RStrip(LStrip(s))

LowerChar(c) ==
    CASE c = "A" -> "a"
      [] c = "B" -> "b"
      [] c = "D" -> "d"
      [] OTHER -> c

Lower(s) == Tuple([i \in 1..Len(s) |-> LowerChar(s[i])])

(***************************************************************************)
(* pd.to_datetime(..., format="%Y%m%d", errors="coerce") and .dt.date      *)
(***************************************************************************)
DigitChars == <<"0", "1", "2", "3", "4", "5", "6", "7", "8", "9">>

IsDigit(c) == c \in {"0", "1", "2", "3", "4", "5", "6", "7", "8", "9"}

DigitVal(c) ==
    CASE c = "0" -> 0 [] c = "1" -> 1 [] c = "2" -> 2 [] c = "3" -> 3 [] c = "4" -> 4
      [] c = "5" -> 5 [] c = "6" -> 6 [] c = "7" -> 7 [] c = "8" -> 8 [] c = "9" -> 9

\* the number written by the digits s[i..j], j - i <= 3
NumVal(s, i, j) ==
    IF j = i + 3
    THEN 1000 * DigitVal(s[i]) + 100 * DigitVal(s[i + 1]) + 10 * DigitVal(s[i + 2])
            + DigitVal(s[i + 3])
    ELSE 10 * DigitVal(s[i]) + DigitVal(s[j])

IsLeap(y) == (y % 4 = 0 /\ y % 100 # 0) \/ y % 400 = 0

DaysInMonth(y, m) ==
    IF m = 2 THEN (IF IsLeap(y) THEN 29 ELSE 28)
    ELSE IF m \in {4, 6, 9, 11} THEN 30 ELSE 31

\* the date of an 8-digit YYYYMMDD string as the number y*10000 + m*100 + d,
\* which orders as the calendar does; anything else is coerced to NaT
ToDatetime(j) ==
    IF j.k = "date" \/ j.k = "nat" THEN j
    ELSE IF j.k # "str" THEN NaT
    ELSE IF Len(j.s) # 8 \/ \E i \in 1..Len(j.s) : ~IsDigit(j.s[i]) THEN NaT
    ELSE LET y == NumVal(j.s, 1, 4)
             m == NumVal(j.s, 5, 6)
             d == NumVal(j.s, 7, 8)
         IN IF m >= 1 /\ m <= 12 /\ d >= 1 /\ d <= DaysInMonth(y, m)
            THEN JDate(y * 10000 + m * 100 + d)
            ELSE NaT

(***************************************************************************)
(* Generic sequence helpers                                                *)
(***************************************************************************)
Take(s, n) == SubSeq(s, 1, IF Len(s) < n THEN Len(s) ELSE n)

RECURSIVE SelectRows(_, _)
\* the rows of s whose index is in keep, in their order
SelectRows(s, keep) ==
    IF s = <<>> THEN <<>>
    ELSE LET n == Len(s)
             front == SelectRows(SubSeq(s, 1, n - 1), keep)
         IN IF n \in keep THEN Append(front, s[n]) ELSE front

RECURSIVE Flat(_)
Flat(ss) == IF ss = <<>> THEN <<>> ELSE Head(ss) \o Flat(Tail(ss))

\* the elements of s (records with a field sortkey) by sortkey descending,
\* elements with equal keys in the order they have in s
SortDesc(s) ==
    LET n == Len(s)
        rank == Tuple([i \in 1..n |->
                    Cardinality({j \in 1..n : s[j].sortkey > s[i].sortkey})
                    + Cardinality({j \in 1..i : s[j].sortkey = s[i].sortkey})])
    IN Tuple([p \in 1..n |-> s[CHOOSE i \in 1..n : rank[i] = p]])

(***************************************************************************)
(* DataFrames: the columns and the rows.  A row always has the four        *)
(* fields; role_desc is "" while the frame has no such column.             *)
(***************************************************************************)
EmptyFrame == [columns |-> <<>>, rows |-> <<>>]

Row(date, drug, role) == [date |-> date, drug |-> drug, role |-> role, role_desc |-> ""]

\* the role column as pandas stores it: integers mixed with None become the
\* float64 values n.0 and NaN, every other mix stays a column of objects
InferRoleColumn(records) ==
    LET kinds == {records[i].role.k : i \in 1..Len(records)}
        conv(j) ==
            IF kinds = {"int", "null"}
            THEN (IF j.k = "int" THEN [k |-> "float", s |-> <<>>, n |-> j.n]
                                 ELSE [k |-> "nan", s |-> <<>>, n |-> 0])
            ELSE j
    IN Tuple([i \in 1..Len(records) |-> [records[i] EXCEPT !.role = conv(@)]])

\* pd.DataFrame(records): no record gives a frame without columns
DataFrame(records) ==
    IF records = <<>> THEN EmptyFrame
    ELSE [columns |-> <<"date", "drug", "role">>, rows |-> InferRoleColumn(records)]

FrameEmpty(df) == df.rows = <<>>

HasColumn(df, c) == \E i \in 1..Len(df.columns) : df.columns[i] = c

(***************************************************************************)
(* The feed's answer to one GET, and the loaders' bodies                   *)
(***************************************************************************)
Raised == [ok |-> FALSE, df |-> EmptyFrame]
Returned(df) == [ok |-> TRUE, df |-> df]

\* requests' Response.raise_for_status(): 4xx and 5xx raise HTTPError
RaisesForStatus(status) == status >= 400 /\ status < 600

\* drug.get("medicinalproduct", "").strip() raises AttributeError on a null
NameRaises(sub) == DictGetDefault(sub.medicinalproduct).k # "str"

AnyNameRaises(results) ==
    \E i \in 1..Len(results) : \E j \in 1..Len(results[i].drug) :
        NameRaises(results[i].drug[j])

TrimmedName(sub) == Strip(DictGetDefault(sub.medicinalproduct).s)

\* the records one event appends in load_events
EventRecords(ev) ==
    Tuple([j \in 1..Len(ev.drug) |->
            Row(DictGet(ev.receiptdate), TrimmedName(ev.drug[j]),
                DictGet(ev.drug[j].drugcharacterization))])

\* the body of load_events for the response resp
load_events(resp) ==
    IF resp.kind = "neterr" THEN Raised
    ELSE IF RaisesForStatus(resp.status) THEN Raised
    ELSE IF AnyNameRaises(resp.results) THEN Raised
    ELSE Returned(DataFrame(Flat(Tuple([i \in 1..Len(resp.results) |->
                                          EventRecords(resp.results[i])]))))

\* name == drug_name
NameMatches_exact(name, drug_name) == name = drug_name

NameMatches(name, drug_name) == Lower(name) = Lower(drug_name)

\* the records one event appends in load_search_events
SearchRecords(ev, drug_name) ==
    LET all == EventRecords(ev)
    IN SelectRows(all, {j \in 1..Len(all) : NameMatches(all[j].drug, drug_name)})

\* the body of load_search_events for the response resp
load_search_events(drug_name, resp) ==
    IF resp.kind = "neterr" THEN Raised
    ELSE IF resp.status = 404 THEN Returned(EmptyFrame)
    ELSE IF RaisesForStatus(resp.status) THEN Raised
    ELSE IF AnyNameRaises(resp.results) THEN Raised
    ELSE Returned(DataFrame(Flat(Tuple([i \in 1..Len(resp.results) |->
                                          SearchRecords(resp.results[i], drug_name)]))))

(***************************************************************************)
(* Series.value_counts(), Series.nlargest(n)                               *)
(***************************************************************************)
RECURSIVE Uniq(_)
\* the distinct values of s in the order they are first met
Uniq(s) ==
    IF s = <<>> THEN <<>>
    ELSE LET n == Len(s)
             front == Uniq(SubSeq(s, 1, n - 1))
         IN IF \E i \in 1..Len(front) : front[i] = s[n] THEN front
            ELSE Append(front, s[n])

Occurrences(s, v) == Cardinality({i \in 1..Len(s) : s[i] = v})

Keyed(series) ==
    Tuple([i \in 1..Len(series) |->
            [value |-> series[i].value, count |-> series[i].count,
             sortkey |-> series[i].count]])

Unkeyed(s) == Tuple([i \in 1..Len(s) |-> [value |-> s[i].value, count |-> s[i].count]])

\* one entry per distinct value, the highest count first
value_counts(s) ==
    LET u == Uniq(s)
    IN Unkeyed(SortDesc(Keyed(Tuple([i \in 1..Len(u) |->
                            [value |-> u[i], count |-> Occurrences(s, u[i])]]))))

\* the n entries with the highest counts, the highest first
nlargest(series, n) == Take(Unkeyed(SortDesc(Keyed(series))), n)

(***************************************************************************)
(* Role labels: df["role"].astype(str).map(role_map).fillna("Unknown")     *)
(***************************************************************************)
RECURSIVE IntChars(_)
IntChars(n) ==
    IF n < 10 THEN <<DigitChars[n + 1]>>
    ELSE Append(IntChars(n \div 10), DigitChars[(n % 10) + 1])

\* str(x) of one value of the role column
AsTypeStr(j) ==
    CASE j.k = "str" -> j.s
      [] j.k = "int" -> IntChars(j.n)
      [] j.k = "float" -> IntChars(j.n) \o <<".", "0">>
      [] j.k = "nan" -> <<"n", "a", "n">>
      [] OTHER -> <<"N", "o", "n", "e">>

\* role_map.get(s), "" standing for the NaN that Series.map gives otherwise
role_map(s) ==
    CASE s = <<"1">> -> "Primary suspect"
      [] s = <<"2">> -> "Secondary suspect"
      [] s = <<"3">> -> "Concomitant"
      [] OTHER -> ""

\* without .fillna("Unknown")
FillNa_missing(label) == label

FillNa(label) == IF label = "" THEN "Unknown" ELSE label

RoleDesc(role) == FillNa(role_map(AsTypeStr(role)))

WithRoleDesc(df) ==
    [columns |-> IF HasColumn(df, "role_desc") THEN df.columns
                 ELSE Append(df.columns, "role_desc"),
     rows |-> Tuple([i \in 1..Len(df.rows) |->
                      [df.rows[i] EXCEPT !.role_desc = RoleDesc(df.rows[i].role)]])]

RoleDescColumn(df) == Tuple([i \in 1..Len(df.rows) |-> df.rows[i].role_desc])

(***************************************************************************)
(* What the pages compute from the frame a loader returned                 *)
(***************************************************************************)
\* number of drugs charted by page_top_drugs
TopN == 10
\* number of rows listed by page_search_drug
RecentRows == 20

View(kind) ==
    [kind |-> kind, top |-> <<>>, found |-> 0, min_date |-> NaT, max_date |-> NaT,
     role_counts |-> <<>>, recent |-> <<>>]

\* df["date"] = pd.to_datetime(df["date"], ...), written into df itself
ParseDates(df) ==
    [df EXCEPT !.rows = Tuple([i \in 1..Len(df.rows) |->
                                 [df.rows[i] EXCEPT !.date = ToDatetime(@)]])]

\* df.dropna(subset=["date"])
DropNaDate(df) ==
    [df EXCEPT !.rows = SelectRows(df.rows,
                            {i \in 1..Len(df.rows) : df.rows[i].date.k # "nat"})]

DateMin(df) ==
    IF df.rows = <<>> THEN NaT
    ELSE LET i == CHOOSE i \in 1..Len(df.rows) :
                    \A j \in 1..Len(df.rows) : df.rows[i].date.n <= df.rows[j].date.n
         IN df.rows[i].date

DateMax(df) ==
    IF df.rows = <<>> THEN NaT
    ELSE LET i == CHOOSE i \in 1..Len(df.rows) :
                    \A j \in 1..Len(df.rows) : df.rows[i].date.n >= df.rows[j].date.n
         IN df.rows[i].date

\* .head(n) taken before .sort_values
RecentReports_head_first(df, n) ==
    LET keyed == Tuple([i \in 1..Len(df.rows) |->
                    [Date |-> df.rows[i].date, Drug |-> df.rows[i].drug,
                     Role |-> df.rows[i].role_desc, sortkey |-> df.rows[i].date.n]])
        sorted == SortDesc(Take(keyed, n))
    IN Tuple([i \in 1..Len(sorted) |->
                [Date |-> sorted[i].Date, Drug |-> sorted[i].Drug,
                 Role |-> sorted[i].Role]])

\* df.sort_values("date", ascending=False)[["date", "drug", "role_desc"]].head(n)
RecentReports(df, n) ==
    LET keyed == Tuple([i \in 1..Len(df.rows) |->
                    [Date |-> df.rows[i].date, Drug |-> df.rows[i].drug,
                     Role |-> df.rows[i].role_desc, sortkey |-> df.rows[i].date.n]])
        sorted == SortDesc(keyed)
    IN Take(Tuple([i \in 1..Len(sorted) |->
                [Date |-> sorted[i].Date, Drug |-> sorted[i].Drug,
                 Role |-> sorted[i].Role]]), n)

\* the frame page_search_drug works on after parsing and dropping dates
SearchFrame(df) == WithRoleDesc(DropNaDate(ParseDates(df)))

\* df["drug"].value_counts(sort=False).head(10)
TopDrugsView_unsorted(df) ==
    IF FrameEmpty(df) \/ ~HasColumn(df, "drug") THEN View("warning")
    ELSE LET s == Tuple([i \in 1..Len(df.rows) |-> df.rows[i].drug])
             u == Uniq(s)
         IN [View("top") EXCEPT
                !.top = Take(Tuple([i \in 1..Len(u) |->
                                [value |-> u[i], count |-> Occurrences(s, u[i])]]), TopN)]

\* page_top_drugs once the frame is there
TopDrugsView(df) ==
    IF FrameEmpty(df) \/ ~HasColumn(df, "drug") THEN View("warning")
    ELSE [View("top") EXCEPT
            !.top = nlargest(value_counts(Tuple([i \in 1..Len(df.rows) |->
                                                    df.rows[i].drug])), TopN)]

\* page_search_drug once the frame is there
SearchDrugView(df) ==
    IF FrameEmpty(df) THEN View("warning")
    ELSE LET d == SearchFrame(df)
         IN [View("search") EXCEPT
                !.found = Len(d.rows),
                !.min_date = DateMin(d),
                !.max_date = DateMax(d),
                !.role_counts = value_counts(RoleDescColumn(d)),
                !.recent = RecentReports(d, RecentRows)]

\* counts reindexed over the four labels, 0 for a label that does not occur
RoleDistributionView_zero_filled(df) ==
    IF FrameEmpty(df) THEN View("warning")
    ELSE LET col == RoleDescColumn(WithRoleDesc(df))
             all == <<"Primary suspect", "Secondary suspect", "Concomitant", "Unknown">>
         IN [View("roles") EXCEPT
                !.role_counts = Tuple([i \in 1..4 |->
                                    [value |-> all[i], count |-> Occurrences(col, all[i])]])]

\* page_role_distribution once the frame is there
RoleDistributionView(df) ==
    IF FrameEmpty(df) THEN View("warning")
    ELSE [View("roles") EXCEPT
            !.role_counts = value_counts(RoleDescColumn(WithRoleDesc(df)))]

(***************************************************************************)
(* st.cache_data: one entry per function and argument values               *)
(***************************************************************************)
\* limit passed by page_top_drugs
LimitEvents == 100
\* limit passed by page_search_drug and page_role_distribution
LimitSearch == 200

KeyEvents == [fn |-> "load_events", drug_name |-> <<>>, limit |-> LimitEvents]

KeySearch(q) == [fn |-> "load_search_events", drug_name |-> q, limit |-> LimitSearch]

Absent == [present |-> FALSE, df |-> EmptyFrame]

\* a wrapper that turns a failing body into an empty frame and stores it
cache_data_swallowing(entry, outcome) ==
    IF entry.present
    THEN [ret |-> Returned(entry.df), entry |-> entry, http |-> 0]
    ELSE [ret |-> Returned(outcome.df),
          entry |-> [present |-> TRUE, df |-> outcome.df],
          http |-> 1]

\* a call of a function decorated with st.cache_data: entry is the stored
\* value for the key, outcome what the body gives if it runs.  A stored value
\* is returned without running the body; a body that raises stores nothing.
cache_data(entry, outcome) ==
    IF entry.present
    THEN [ret |-> Returned(entry.df), entry |-> entry, http |-> 0]
    ELSE [ret |-> outcome,
          entry |-> IF outcome.ok THEN [present |-> TRUE, df |-> outcome.df] ELSE entry,
          http |-> 1]

\* st.cache_data hands each caller its own copy of the stored frame: what the
\* caller then writes into the frame it got (written) does not reach the entry
\* as st.cache_resource does: every caller gets the stored object itself
cache_data_shared(entry, written) == [entry EXCEPT !.df = written]

cache_data_copy(entry, written) == entry

\* the record of one loader call: hit, the key had an entry; seen, a call for
\* the key had returned before; http, the GETs it made; kind and status, the
\* answer to the GET; ok and df, the frame it returned unless it raised
NoCall ==
    [made |-> FALSE, key |-> KeyEvents, hit |-> FALSE, seen |-> FALSE, http |-> 0,
     kind |-> "none", status |-> 0, ok |-> FALSE, df |-> EmptyFrame]

Call(key, c, resp) ==
    [made |-> TRUE, key |-> key, hit |-> cache[key].present,
     seen |-> first[key].present, http |-> c.http,
     kind |-> IF c.http = 0 THEN "none" ELSE resp.kind,
     status |-> IF c.http = 0 THEN 0 ELSE resp.status,
     ok |-> c.ret.ok, df |-> c.ret.df]

\* history: the first frame a loader returned for each key
FirstAfter(key, c) ==
    IF c.ret.ok /\ ~first[key].present
    THEN [first EXCEPT ![key] = [present |-> TRUE, df |-> c.ret.df]]
    ELSE first

\* history: page_search_drug rewrote the dates of the frame it got for key
EditedAfter(key, c) ==
    IF c.ret.ok /\ ~FrameEmpty(c.ret.df) THEN edited \cup {key} ELSE edited

(***************************************************************************)
(* The answers of the feed.  feed is the result list the remote holds; a   *)
(* GET is answered with it (200), with "not found" (404), with a server    *)
(* error (500), or not at all (neterr).                                    *)
(***************************************************************************)
Statuses == {200, 404, 500}

Responses ==
    {[kind |-> "http", status |-> s, results |-> IF s = 200 THEN feed ELSE <<>>] :
        s \in Statuses}
    \cup {[kind |-> "neterr", status |-> 0, results |-> <<>>]}

\* what the user may have typed into st.text_input
TextInputs == {<<"A", " ">>, <<" ">>}

Queries == {Strip(x) : x \in TextInputs} \ {<<>>}

Keys == {KeyEvents} \cup {KeySearch(q) : q \in Queries}

(***************************************************************************)
(* The pages                                                               *)
(***************************************************************************)
page_top_drugs(resp) ==
    \E c \in {cache_data(cache[KeyEvents], load_events(resp))} :
       /\ page' = "Top Drugs"
       /\ cache' = [cache EXCEPT ![KeyEvents] = c.entry]
       /\ call' = Call(KeyEvents, c, resp)
       /\ first' = FirstAfter(KeyEvents, c)
       /\ UNCHANGED edited
       /\ view' = IF c.ret.ok THEN TopDrugsView(c.ret.df) ELSE View("exception")
       /\ UNCHANGED feed

page_search_drug(text, resp) ==
    LET drug_query == Strip(text)
        key == KeySearch(drug_query)
    IN /\ page' = "Search by Drug"
       /\ IF drug_query = <<>>
          THEN /\ view' = View("info")
               /\ call' = NoCall
               /\ UNCHANGED <<cache, first, edited>>
          ELSE \E c \in {cache_data(cache[key], load_search_events(drug_query, resp))} :
               /\ call' = Call(key, c, resp)
               /\ first' = FirstAfter(key, c)
               /\ edited' = EditedAfter(key, c)
               /\ view' = IF c.ret.ok THEN SearchDrugView(c.ret.df)
                          ELSE View("exception")
               /\ cache' = [cache EXCEPT ![key] =
                              IF c.ret.ok /\ ~FrameEmpty(c.ret.df)
                              THEN cache_data_copy(c.entry, ParseDates(c.ret.df))
                              ELSE c.entry]
       /\ UNCHANGED feed

page_role_distribution(text, resp) ==
    LET drug_name == Strip(text)
        key == KeySearch(drug_name)
    IN /\ page' = "Role Distribution"
       /\ IF drug_name = <<>>
          THEN /\ view' = View("info")
               /\ call' = NoCall
               /\ UNCHANGED <<cache, first>>
          ELSE \E c \in {cache_data(cache[key], load_search_events(drug_name, resp))} :
               /\ call' = Call(key, c, resp)
               /\ first' = FirstAfter(key, c)
               /\ view' = IF c.ret.ok THEN RoleDistributionView(c.ret.df)
                          ELSE View("exception")
               /\ cache' = [cache EXCEPT ![key] =
                              IF c.ret.ok /\ ~FrameEmpty(c.ret.df)
                              THEN cache_data_copy(c.entry, WithRoleDesc(c.ret.df))
                              ELSE c.entry]
       /\ UNCHANGED <<feed, edited>>

RenderTopDrugs == \E resp \in Responses : page_top_drugs(resp)

RenderSearchDrug == \E text \in TextInputs, resp \in Responses : page_search_drug(text, resp)

RenderRoleDistribution ==
    \E text \in TextInputs, resp \in Responses : page_role_distribution(text, resp)

(***************************************************************************)
(* Feeds                                                                   *)
(***************************************************************************)
Sub(name, role) == [medicinalproduct |-> name, drugcharacterization |-> role]

Event(date, subs) == [receiptdate |-> date, drug |-> subs]

SeqsUpTo(S, n) == UNION {[1..k -> S] : k \in 0..n}

\* drug sub-records of the feeds that vary the names
MaxNameSubs == 2
\* events of the feeds that vary the roles and the dates
MaxRoleEvents == 2

NameVals == {JStr(<<"a", " ">>), JStr(<<"A", "B">>), JStr(<<" ">>), JAbsent, JNull}

RoleVals == {JStr(<<"1">>), JStr(<<"3">>), JStr(<<"9">>), JInt(1), JAbsent}

DateVals ==
    {JStr(<<"2", "0", "2", "3", "0", "1", "1", "5">>),
     JStr(<<"2", "0", "2", "3", "0", "1", "4", "5">>)}

\* two events, the second without a receipt date, sharing out the sub-records
NameFeeds ==
    {<<Event(JStr(<<"2", "0", "2", "4", "0", "2", "2", "9">>),
             [j \in 1..cut |-> Sub(names[j], JStr(<<"2">>))]),
       Event(JAbsent,
             [j \in 1..(Len(names) - cut) |-> Sub(names[cut + j], JStr(<<"2">>))])>> :
        <<names, cut>> \in {nc \in SeqsUpTo(NameVals, MaxNameSubs) \X (0..MaxNameSubs) :
                               nc[2] <= Len(nc[1])}}

\* one event per report of the drug "A", varying in role and receipt date
RoleFeeds ==
    {[i \in 1..Len(rd) |-> Event(rd[i][2], <<Sub(JStr(<<"A">>), rd[i][1])>>)] :
        rd \in SeqsUpTo(RoleVals \X DateVals, MaxRoleEvents)}

NoEntries == [k \in Keys |-> Absent]

InitRest ==
    /\ cache = NoEntries
    /\ first = NoEntries
    /\ edited = {}
    /\ call = NoCall
    /\ page = "none"
    /\ view = View("none")

Init == feed \in NameFeeds \cup RoleFeeds /\ InitRest

Next == RenderTopDrugs \/ RenderSearchDrug \/ RenderRoleDistribution

Spec == Init /\ [][Next]_vars

(***************************************************************************)
(* Feeds for the ranking of page_top_drugs: one event per report, the      *)
(* reports of a drug together, the drugs in the order of their numbers.    *)
(***************************************************************************)
\* drugs the feed may name
NumDrugs == 11
\* reports of a drug that may be reported more than once
MaxRepeat == 2
\* the drugs that may be
RepeatDrugs == {1, 2}
\* reports of the last drug when it is the one reported most
ScenarioCount == 10

\* D1, d1, D2, d2, ...: two names in a row differ in case only
DrugName(i) == <<IF i % 2 = 1 THEN "D" ELSE "d">> \o IntChars((i + 1) \div 2)

Copies(x, n) == Tuple([i \in 1..n |-> x])

Report(name, role, date) == Event(date, <<Sub(JStr(name), role)>>)

TopFeed(rep, pres, heavy) ==
    Flat([i \in 1..NumDrugs |->
            Copies(Report(DrugName(i), JStr(<<"1">>),
                          JStr(<<"2", "0", "2", "3", "0", "1", "1", "5">>)),
                   IF i \in RepeatDrugs THEN rep[i]
                   ELSE IF i = NumDrugs /\ heavy THEN ScenarioCount
                   ELSE IF i \in pres THEN 1 ELSE 0)])

TopFeeds ==
    {TopFeed(rep, pres, heavy) :
        rep \in [RepeatDrugs -> 0..MaxRepeat],
        pres \in SUBSET ((1..NumDrugs) \ RepeatDrugs),
        heavy \in BOOLEAN}

InitTop == feed \in TopFeeds /\ InitRest

NextTop == RenderTopDrugs

SpecTop == InitTop /\ [][NextTop]_vars

(***************************************************************************)
(* Feeds for the listing of page_search_drug: reports of the drug "A",     *)
(* the reports of one receipt date together.                               *)
(***************************************************************************)
\* reports with the same receipt date
MaxPerDate == 11

EarlyDate == JStr(<<"2", "0", "2", "2", "1", "2", "3", "1">>)
MidDate == JStr(<<"2", "0", "2", "3", "0", "1", "1", "5">>)
LateDate == JStr(<<"2", "0", "2", "4", "0", "2", "2", "9">>)

\* receipt dates that do not parse: day 45, 29 February 2023, none
BadDates ==
    <<JStr(<<"2", "0", "2", "3", "0", "1", "4", "5">>),
      JStr(<<"2", "0", "2", "3", "0", "2", "2", "9">>),
      JAbsent>>

\* early reports, reports without a date, late reports, a report in between
RecentFeeds ==
    {Copies(Report(<<"A">>, JStr(<<"1">>), EarlyDate), early)
        \o SelectRows([i \in 1..Len(BadDates) |->
                         Report(<<"A">>, JStr(<<"3">>), BadDates[i])], bad)
        \o Copies(Report(<<"A">>, JStr(<<"1">>), LateDate), late)
        \o Copies(Report(<<"A">>, JStr(<<"1">>), MidDate), mid) :
        early \in 0..MaxPerDate, late \in 0..MaxPerDate,
        bad \in SUBSET (1..Len(BadDates)), mid \in 0..1}

InitRecent == feed \in RecentFeeds /\ InitRest

NextRecent == RenderSearchDrug

SpecRecent == InitRecent /\ [][NextRecent]_vars


(***************************************************************************)
(* Properties                                                              *)
(***************************************************************************)
Labels == {"Primary suspect", "Secondary suspect", "Concomitant", "Unknown"}

RECURSIVE SumCounts(_)
SumCounts(series) ==
    IF series = <<>> THEN 0 ELSE Head(series).count + SumCounts(Tail(series))

\* the count a series reports for value v, 0 when it has no row for v
CountFor(series, v) ==
    IF \E i \in 1..Len(series) : series[i].value = v
    THEN series[CHOOSE i \in 1..Len(series) : series[i].value = v].count
    ELSE 0

NoDuplicates(series) ==
    \A i, j \in 1..Len(series) : series[i].value = series[j].value => i = j

\* the fetch of the last call ended in a transport failure: no answer, or a
\* status outside 2xx other than 404
TransportFailure ==
    /\ call.made /\ call.http = 1
    /\ \/ call.kind = "neterr"
       \/ call.kind = "http" /\ call.status \notin 200..299 /\ call.status # 404

\* the fetch of the last call was answered 404
NotFound == call.made /\ call.http = 1 /\ call.kind = "http" /\ call.status = 404

(***************************************************************************)
(* C1: once a loader call for a key has returned a frame, every later call *)
(* with that key makes no HTTP request and returns a frame equal to the    *)
(* first one, also after a page wrote into the frame it got; the entry of  *)
(* a key goes from absent to present and is never removed or changed.      *)
(***************************************************************************)
C1_CacheIdempotent ==
    /\ \A k \in Keys :
        /\ cache[k].present = first[k].present
        /\ first[k].present => cache[k].df = first[k].df
    /\ call.made /\ call.seen =>
        call.http = 0 /\ call.ok /\ call.df = first[call.key].df

\* page_role_distribution got the first frame again after page_search_drug
\* had rewritten the dates of its frame and dropped a row from it
C1_Witness ==
    /\ page = "Role Distribution" /\ call.made /\ call.seen /\ call.http = 0
    /\ call.key \in edited
    /\ \E i \in 1..Len(call.df.rows) : ToDatetime(call.df.rows[i].date) = NaT
    /\ cache[KeyEvents].present

(***************************************************************************)
(* C2 (as claimed): a 404 answer gives an empty frame in both loaders, and *)
(* the page shows its warning, not an error.                               *)
(***************************************************************************)
C2_NotFoundIsEmpty ==
    NotFound => call.ok /\ FrameEmpty(call.df) /\ view.kind = "warning"

(***************************************************************************)
(* C3 (as claimed): no row of a returned frame has an empty drug name, and *)
(* load_events returns, for each event, one row per sub-record whose       *)
(* trimmed name is not empty.                                              *)
(***************************************************************************)
NamedSubs(ev) ==
    Cardinality({j \in 1..Len(ev.drug) :
                    /\ ev.drug[j].medicinalproduct.k = "str"
                    /\ Strip(ev.drug[j].medicinalproduct.s) # <<>>})

RECURSIVE NamedSubsOf(_)
NamedSubsOf(results) ==
    IF results = <<>> THEN 0
    ELSE NamedSubs(Head(results)) + NamedSubsOf(Tail(results))

C3_NoEmptyDrug ==
    call.made /\ call.ok =>
        /\ \A i \in 1..Len(call.df.rows) : call.df.rows[i].drug # <<>>
        /\ call.key.fn = "load_events" => Len(call.df.rows) = NamedSubsOf(feed)

(***************************************************************************)
(* C4: the rows a page counts, and their role codes                        *)
(***************************************************************************)
\* the rows of the returned frame that the page rendered last counts
CountedRows ==
    IF view.kind = "search"
    THEN SelectRows(call.df.rows,
                    {i \in 1..Len(call.df.rows) :
                        ToDatetime(call.df.rows[i].date) # NaT})
    ELSE call.df.rows

\* the label of a code by the table of the claim: the strings "1", "2", "3",
\* and Unknown for every other string, every non-string value and no code
LabelOfString(j) ==
    IF j.k # "str" THEN "Unknown"
    ELSE IF j.s = <<"1">> THEN "Primary suspect"
    ELSE IF j.s = <<"2">> THEN "Secondary suspect"
    ELSE IF j.s = <<"3">> THEN "Concomitant"
    ELSE "Unknown"

\* the same, an integer code in a column of integers or of mixed values
\* counting as its decimal string
LabelOfCode(j) ==
    IF j.k = "int" /\ j.n \in 1..3
    THEN LabelOfString(JStr(<<DigitChars[j.n + 1]>>))
    ELSE LabelOfString(j)

\* the counts shown are those of the labels, one label for each counted row
CountsAgree(labels) ==
    /\ \A i \in 1..Len(view.role_counts) : view.role_counts[i].value \in Labels
    /\ NoDuplicates(view.role_counts)
    /\ \A l \in Labels :
        CountFor(view.role_counts, l) =
            Cardinality({i \in 1..Len(labels) : labels[i] = l})
    /\ SumCounts(view.role_counts) = Len(labels)

(***************************************************************************)
(* C4 (as claimed): every row counted by page_search_drug and              *)
(* page_role_distribution is counted under exactly one of the four labels: *)
(* the codes "1", "2", "3" under the first three, every other code, every  *)
(* non-string code and a missing code under Unknown.                       *)
(***************************************************************************)
C4_RoleMappingTotal_Original ==
    view.kind \in {"search", "roles"} =>
        CountsAgree(Tuple([i \in 1..Len(CountedRows) |->
                            LabelOfString(CountedRows[i].role)]))

(***************************************************************************)
(* C4 (amended): every row counted by the two pages is counted under       *)
(* exactly one of the four labels, none is left out and nothing is raised; *)
(* the label is that of the code's string form: "1", "2", "3" and the      *)
(* integers 1, 2, 3 give the first three labels, every other string, a     *)
(* missing code, and an integer held as a float (a column of integers and  *)
(* missing codes) give Unknown.                                            *)
(***************************************************************************)
C4_RoleMappingTotal ==
    view.kind \in {"search", "roles"} =>
        CountsAgree(Tuple([i \in 1..Len(CountedRows) |->
                            LabelOfCode(CountedRows[i].role)]))

\* page_role_distribution counted an integer held as a float and no code
C4_Witness ==
    /\ view.kind = "roles"
    /\ \E i \in 1..Len(call.df.rows) : call.df.rows[i].role.k = "float"
    /\ \E i \in 1..Len(call.df.rows) : call.df.rows[i].role.k = "nan"

\* page_search_drug counted the integer code 1 and another string
C4_WitnessInteger ==
    /\ view.kind = "search"
    /\ \E i \in 1..Len(CountedRows) : CountedRows[i].role = JInt(1)
    /\ \E i \in 1..Len(CountedRows) : CountedRows[i].role = JStr(<<"9">>)

(***************************************************************************)
(* C5 (as claimed): a row whose receipt date is missing or does not parse  *)
(* is still counted in the role breakdown of page_search_drug and in the   *)
(* role distribution of page_role_distribution: both count every row of    *)
(* the frame.                                                              *)
(***************************************************************************)
C5_NullDateStillCounted ==
    view.kind \in {"search", "roles"} =>
        SumCounts(view.role_counts) = Len(call.df.rows)

(***************************************************************************)
(* C6: page_top_drugs charts at most TopN drugs, each with the number of   *)
(* rows of the frame that have exactly that name, the counts never rising  *)
(* down the chart, and no drug left out has a count above a charted one; a *)
(* drug reported ScenarioCount times among drugs reported once is first.   *)
(***************************************************************************)
DrugColumn == Tuple([i \in 1..Len(call.df.rows) |-> call.df.rows[i].drug])

\* top is the chart of the rows with the drug names col
IsTopRanking(top, col) ==
    LET reported == {col[i] : i \in 1..Len(col)}
        reports == [d \in reported |-> Cardinality({i \in 1..Len(col) : col[i] = d})]
        charted == {top[i].value : i \in 1..Len(top)}
    IN /\ Len(top) <= TopN
       /\ NoDuplicates(top)
       /\ \A i \in 1..Len(top) :
            /\ top[i].value \in reported
            /\ top[i].count = reports[top[i].value]
       /\ \A i, j \in 1..Len(top) : i < j => top[i].count >= top[j].count
       /\ \A d \in reported \ charted :
            \A i \in 1..Len(top) : reports[d] <= top[i].count
       /\ \A d \in reported :
            /\ reports[d] = ScenarioCount
            /\ \A e \in reported \ {d} : reports[e] = 1
            => top[1] = [value |-> d, count |-> ScenarioCount]

C6_TopRanking == view.kind = "top" => IsTopRanking(view.top, DrugColumn)

DrugsReported == {DrugColumn[i] : i \in 1..Len(DrugColumn)}

\* more than TopN drugs, each reported once but the last of the feed
C6_Witness ==
    /\ view.kind = "top"
    /\ Cardinality(DrugsReported) > TopN
    /\ Len(view.top) = TopN
    /\ view.top[1].count = ScenarioCount
    /\ \A i \in 2..Len(view.top) : view.top[i].count = 1

\* a drug left out although as many drugs were reported less often
C6_WitnessTies ==
    /\ view.kind = "top"
    /\ Cardinality(DrugsReported) > TopN
    /\ view.top[1].count > view.top[2].count
    /\ view.top[2].count > view.top[TopN].count

(***************************************************************************)
(* C9: the listing of page_search_drug has at most RecentRows rows, all    *)
(* with a date, the dates never rising down the listing; they are the rows *)
(* of the frame with the latest dates: no row left out has a date after    *)
(* that of a listed one.                                                   *)
(***************************************************************************)
ParsedDates == Tuple([i \in 1..Len(call.df.rows) |-> ToDatetime(call.df.rows[i].date)])

\* recent is the listing of the rows with the dates parsed
IsRecentListing(recent, parsed) ==
    LET dated == {i \in 1..Len(parsed) : parsed[i] # NaT}
    IN /\ Len(recent) <= RecentRows
       /\ Len(recent) = Cardinality(dated) \/ Len(recent) = RecentRows
       /\ \A i \in 1..Len(recent) : recent[i].Date.k = "date"
       /\ \A i, j \in 1..Len(recent) : i < j => recent[i].Date.n >= recent[j].Date.n
       /\ \A d \in {parsed[i] : i \in dated} :
            LET total == Cardinality({i \in dated : parsed[i] = d})
                listed == Cardinality({i \in 1..Len(recent) : recent[i].Date = d})
            IN /\ listed <= total
               /\ listed < total => \A i \in 1..Len(recent) : recent[i].Date.n >= d.n

C9_RecentListing == view.kind = "search" => IsRecentListing(view.recent, ParsedDates)

Dated == {i \in 1..Len(call.df.rows) : ToDatetime(call.df.rows[i].date) # NaT}

\* more dated rows than the listing takes, of three dates, and a row without
C9_Witness ==
    /\ view.kind = "search"
    /\ Cardinality(Dated) > RecentRows
    /\ Len(view.recent) = RecentRows
    /\ Cardinality(Dated) < Len(call.df.rows)
    /\ Cardinality({view.recent[i].Date : i \in 1..Len(view.recent)}) = 3

(***************************************************************************)
(* C7: for a frame that is not empty, page_role_distribution reports       *)
(* exactly the labels that occur in the frame, each once with its count,   *)
(* which is positive; the counts add up to the number of rows.             *)
(***************************************************************************)
C7_RoleDistribution ==
    view.kind = "roles" =>
        LET labels == Tuple([i \in 1..Len(call.df.rows) |->
                                RoleDesc(call.df.rows[i].role)])
        IN /\ ~FrameEmpty(call.df)
           /\ NoDuplicates(view.role_counts)
           /\ {view.role_counts[i].value : i \in 1..Len(view.role_counts)}
                = {labels[i] : i \in 1..Len(labels)}
           /\ \A i \in 1..Len(view.role_counts) :
                /\ view.role_counts[i].count > 0
                /\ view.role_counts[i].count
                    = Cardinality({j \in 1..Len(labels) :
                                      labels[j] = view.role_counts[i].value})
           /\ SumCounts(view.role_counts) = Len(call.df.rows)

\* the codes "1" and "3" only: two rows, Primary suspect and Concomitant
C7_Witness ==
    /\ view.kind = "roles"
    /\ {view.role_counts[i].value : i \in 1..Len(view.role_counts)}
        = {"Primary suspect", "Concomitant"}
    /\ Len(call.df.rows) = 2

(***************************************************************************)
(* C8: the frame load_search_events builds from a 200 answer holds, in     *)
(* feed order (events, then sub-records), exactly the sub-records whose    *)
(* trimmed name equals drug_name when case is ignored.                     *)
(***************************************************************************)
\* every sub-record of the feed with its event's date, in feed order
FeedSubs ==
    Flat(Tuple([i \in 1..Len(feed) |->
            Tuple([j \in 1..Len(feed[i].drug) |->
                [date |-> DictGet(feed[i].receiptdate),
                 name |-> feed[i].drug[j].medicinalproduct]])]))

SameIgnoringCase(a, b) ==
    /\ Len(a) = Len(b)
    /\ \A i \in 1..Len(a) : LowerChar(a[i]) = LowerChar(b[i])

C8_SearchFilter ==
    call.made /\ call.ok /\ call.key.fn = "load_search_events" =>
        /\ \A i \in 1..Len(call.df.rows) :
            /\ SameIgnoringCase(call.df.rows[i].drug, call.key.drug_name)
            /\ call.df.rows[i].drug = Strip(call.df.rows[i].drug)
        /\ call.http = 1 /\ call.status = 200 =>
            LET wanted == SelectRows(FeedSubs,
                            {i \in 1..Len(FeedSubs) :
                                /\ FeedSubs[i].name.k = "str"
                                /\ SameIgnoringCase(Strip(FeedSubs[i].name.s),
                                                    call.key.drug_name)})
            IN /\ Len(call.df.rows) = Len(wanted)
               /\ \A i \in 1..Len(wanted) :
                    /\ call.df.rows[i].date = wanted[i].date
                    /\ call.df.rows[i].drug = Strip(wanted[i].name.s)

\* a sub-record of each event matched only after trimming and ignoring case
C8_Witness ==
    /\ call.made /\ call.ok /\ call.key.fn = "load_search_events"
    /\ call.http = 1 /\ call.status = 200
    /\ Len(call.df.rows) = 2
    /\ call.df.rows[1].date # call.df.rows[2].date
    /\ call.df.rows[1].drug # call.key.drug_name

\* a sub-record the feed answered with is left out
C8_WitnessLeftOut ==
    /\ call.made /\ call.ok /\ call.key.fn = "load_search_events"
    /\ call.http = 1 /\ call.status = 200
    /\ Len(call.df.rows) = 1
    /\ Len(FeedSubs) = 2

====
